---- MODULE Spec2Model ----
(***************************************************************************)
(* State-machine model of tools/fetch_mast_24h.py: main() loads the        *)
(* whitelist, walks the time window backwards in slices, paginates every   *)
(* slice through call_mast (retry with backoff), filters the rows against  *)
(* the whitelist, de-duplicates them and writes the JSON envelope.         *)
(*                                                                         *)
(* Time is counted in whole hours.  Strings that the program inspects      *)
(* character by character (names) are sequences of one-character strings.  *)
(* Python's None is the value None below for integer fields, and the       *)
(* empty sequence for names (normalize treats both alike: `name or ''`).   *)
(* An optional JSON field is a sequence of length 0 (absent) or 1.         *)
(* A CSV row records how many fields its line holds: csv.DictReader gives  *)
(* the columns beyond them the value None, not the empty string.           *)
(* Inputs have retries >= 0, so call_mast's loop always ends by a return   *)
(* or a raise, never by running out of range(retries+1).                   *)
(***************************************************************************)
EXTENDS Integers, Sequences, FiniteSets, TLC

VARIABLES
    pc,         \* position of the single thread of control
    args,       \* parsed command line: hours, slice_hours, pagesize, retries
    csv_file,   \* the TrExoLiSTS file on disk: exists, rows (header hostname_nn,letter_nn)
    archive,    \* the remote archive: rows it may return, pages it holds per query
    whitelist,  \* wl in main
    start_dt,   \* start in main
    end_dt,     \* end in main
    out,        \* the envelope under construction in main
    file,       \* what has been written to args.out: one entry per write
    rows,       \* accumulator of fetch_jwst_exoplanets
    t0,         \* lower bound of the current slice
    t1,         \* upper bound of the current slice
    slices,     \* number of iterations of the for loop
    slice_no,   \* iterations of the for loop started so far
    page,       \* page number within the current slice
    attempt,    \* loop variable of call_mast
    log,        \* history: every HTTP attempt, with its outcome
    stderr,     \* history: the messages printed to standard error
    sleeps,     \* history: the arguments of time.sleep, in tenths of a second
    fetched     \* history: every row a page has returned

vars == <<pc, args, csv_file, archive, whitelist, start_dt, end_dt, out, file,
          rows, t0, t1, slices, slice_no, page, attempt, log, stderr, sleeps,
          fetched>>

---------------------------------------------------------------------------
(* Bounds of the checked input envelopes. *)

MaxSlices == 2
CallMaxPagesize == 2
CallMaxRetries == 3
CallMaxPages == 3
WinMaxWindow == 5
WinMaxSlice == 3

---------------------------------------------------------------------------
(* Values *)

None == -1

utcnow == 100

Max(a, b) == IF a >= b THEN a ELSE b

Range(s) == {s[j] : j \in DOMAIN s}

(* str.lower on one character *)
Lower(ch) ==
    CASE ch = "W" -> "w"
      [] ch = "G" -> "g"
      [] ch = "B" -> "b"
      [] OTHER -> ch

(* str.isalnum / str.isalpha on one character *)
isalnum(ch) == ch \in {"W", "w", "G", "g", "B", "b", "4", "1"}

isalpha(ch) == ch \in {"W", "w", "G", "g", "B", "b"}

(* line 20: lower-case, then keep the alphanumeric characters *)
(* normalize without .lower() *)
normalize_keep_case(name) == SelectSeq(name, isalnum)

normalize(name) ==
    SelectSeq([j \in 1..Len(name) |-> Lower(name[j])], isalnum)

(* line 19, in hours: 24 * (timestamp/86400 + 40587) *)
to_mjd(dt) == dt + 24 * 40587

---------------------------------------------------------------------------
(* load_whitelist, lines 22-41 *)

RECURSIVE lstrip(_)
lstrip(s) == IF s # <<>> /\ Head(s) = " " THEN lstrip(Tail(s)) ELSE s

RECURSIVE rstrip(_)
rstrip(s) ==
    IF s # <<>> /\ s[Len(s)] = " " THEN rstrip(SubSeq(s, 1, Len(s) - 1)) ELSE s

strip(s) == rstrip(lstrip(s))

(* lines 33-39: what one CSV row adds to the set *)
row_targets(row) ==
    LET host == strip(row.hostname_nn)
        letter == strip(row.letter_nn)
    IN  IF host = <<>> THEN {}
        ELSE {normalize(host)} \cup
             (IF Len(letter) = 1 /\ isalpha(letter[1])
              THEN {normalize(host \o <<Lower(letter[1])>>)}
              ELSE {})

(* line 31: row.get(h, "") is None for a column the line has no field for,
   and None.strip() raises AttributeError *)
col_raises(row) == row.fields < 2

(* load_whitelist does not return: the exception of line 31 leaves it *)
load_raises(f) ==
    f.exists /\ \E j \in DOMAIN f.rows : col_raises(f.rows[j])

load_whitelist(f) ==
    IF ~f.exists THEN {}
    ELSE UNION {row_targets(f.rows[j]) : j \in DOMAIN f.rows}

(* lines 25 and 40: the message load_whitelist prints *)
(* the message of line 40 for a missing file too *)
load_message_info(f) ==
    [tag |-> "info", n |-> Cardinality(load_whitelist(f)), m |-> 0]

load_message(f) ==
    IF ~f.exists THEN [tag |-> "warn", n |-> 0, m |-> 0]
    ELSE [tag |-> "info", n |-> Cardinality(load_whitelist(f)), m |-> 0]

---------------------------------------------------------------------------
(* mast_request_jwst, lines 43-60: the fields that vary *)

mast_request_jwst(mjd_start, mjd_end, pg, pagesize) ==
    [t_min_max |-> mjd_end, t_max_min |-> mjd_start,
     pagesize |-> pagesize, page |-> pg]

---------------------------------------------------------------------------
(* call_mast, lines 62-82 *)

(* line 65: range(retries+1) still has an element for this attempt *)
in_range(a, retries) == a < retries + 1

(* a retry budget that is one short *)
should_retry_one_short(a, retries) == a + 1 < retries

(* line 77 *)
should_retry(a, retries) == a < retries

(* line 78: backoff ** attempt with backoff = 2.0, in tenths of a second *)
RECURSIVE pow2(_)
pow2(a) == IF a = 0 THEN 1 ELSE 2 * pow2(a - 1)

(* a delay that grows by one second per attempt *)
sleep_s_linear(a) == 10 * (a + 1)

sleep_s(a) == 10 * pow2(a)

(* a retry that sleeps without a warning *)
retry_warning_silent(a, retries) == <<>>

(* line 79: the warning printed before the sleep *)
retry_warning(a, retries) ==
    <<[tag |-> "retry", n |-> a + 1, m |-> retries]>>

---------------------------------------------------------------------------
(* fetch_jwst_exoplanets, lines 84-115 *)

(* Python 3 round(num/den): to nearest, ties to the even integer *)
round(num, den) ==
    LET q == num \div den
        r == num % den
    IN  IF 2 * r < den THEN q
        ELSE IF 2 * r > den THEN q + 1
        ELSE IF q % 2 = 0 THEN q ELSE q + 1

(* lines 87-88 *)
slice_count(total_hours, slice_hours) == Max(1, round(total_hours, slice_hours))

(* the clamp of line 91 with its comparison reversed *)
slice_start_reversed(upper, slice_hours, start) ==
    IF upper - slice_hours > start THEN start ELSE upper - slice_hours

(* line 90 without the clamp of line 91 *)
slice_start_unclamped(upper, slice_hours, start) == upper - slice_hours

(* lines 90-91 *)
slice_start(upper, slice_hours, start) ==
    IF upper - slice_hours < start THEN start ELSE upper - slice_hours

(* lines 100-103 *)
filter_page(data, wl) ==
    SelectSeq(data, LAMBDA r : normalize(r.target_name) \in wl)

(* the end of a slice decided on the filtered rows instead of the raw ones *)
last_page_filtered(data, kept, pagesize) == Len(kept) < pagesize

(* the end of a slice decided by <= instead of < *)
last_page_inclusive(data, kept, pagesize) == Len(data) <= pagesize

(* a slice that ends after its first page, whatever its size *)
last_page_always(data, kept, pagesize) == TRUE

(* line 104: the page just read is the last one of the slice *)
last_page(data, kept, pagesize) == Len(data) < pagesize

(* line 107 *)
window_done(upper, start) == upper <= start

(* line 112: `x or y` takes y when x is None or 0 *)
falsy(v) == v = None \/ v = 0

dedup_key(r) ==
    IF falsy(r.obsid) THEN <<r.obs_id, r.t_min, r.t_max>> ELSE <<r.obsid>>

(* lines 110-115 *)
RECURSIVE uniq_loop(_, _, _)
uniq_loop(rs, seen, uniq) ==
    IF rs = <<>> THEN uniq
    ELSE LET r == Head(rs)
             k == dedup_key(r)
         IN  IF k \in seen THEN uniq_loop(Tail(rs), seen, uniq)
             ELSE uniq_loop(Tail(rs), seen \cup {k}, Append(uniq, r))

uniq_rows(rs) == uniq_loop(rs, {}, <<>>)

---------------------------------------------------------------------------
(* The environment: command lines, whitelist files, archive contents *)

Name_WASP == <<"W", "-", "4", "b">>
Name_wasp == <<"w", "4">>
Name_GJ == <<"G", "1">>

Row(tn, obsid, obs_id) ==
    [target_name |-> tn, obsid |-> obsid, obs_id |-> obs_id,
     t_min |-> 1, t_max |-> 2]

RowW == Row(Name_WASP, 1, 1)
RowG == Row(Name_GJ, 2, 2)

(* Archive contents: the end-to-end scenario; two rows with obsid 0; obsid 0
   and obsid null with one triple; obsid null with two triples; one obsid
   twice. *)
Universes ==
    { {RowW, RowG},
      {Row(Name_WASP, 0, 1), Row(Name_WASP, 0, 2)},
      {Row(Name_WASP, 0, 1), Row(Name_WASP, None, 1)},
      {Row(Name_WASP, None, 1), Row(Name_wasp, None, 2)},
      {Row(Name_WASP, 1, 1), Row(Name_wasp, 1, 2)} }

CsvPresent ==
    [exists |-> TRUE,
     rows |-> <<[hostname_nn |-> <<"W", "-", "4">>, letter_nn |-> <<"b">>,
                 fields |-> 2],
                [hostname_nn |-> <<" ">>, letter_nn |-> <<"b">>,
                 fields |-> 2]>>]

CsvMissing == [exists |-> FALSE, rows |-> <<>>]

(* a file whose only data line is `W-4`, without a second field *)
CsvShort ==
    [exists |-> TRUE,
     rows |-> <<[hostname_nn |-> <<"W", "-", "4">>, letter_nn |-> <<>>,
                 fields |-> 1]>>]

Pages(universe, pagesize) ==
    UNION {[1..n -> universe] : n \in 0..pagesize}

Args(Ws, Ss, Ps, Rs) ==
    [hours : Ws, slice_hours : Ss, pagesize : Ps, retries : Rs]

InitWith(As, Fs, Us, Ms) ==
    /\ args \in As
    /\ csv_file \in Fs
    /\ archive \in [rows : Us, pages : Ms]
    /\ pc = "main"
    /\ whitelist = {}
    /\ start_dt = 0
    /\ end_dt = 0
    /\ out = [generated_utc |-> 0, window_utc |-> <<0, 0>>,
              jwst |-> <<>>, jwst_error |-> <<>>]
    /\ file = <<>>
    /\ rows = <<>>
    /\ t0 = 0
    /\ t1 = 0
    /\ slices = 0
    /\ slice_no = 0
    /\ page = 0
    /\ attempt = 0
    /\ log = <<>>
    /\ stderr = <<>>
    /\ sleeps = <<>>
    /\ fetched = {}

(* Whole runs over windows of at most MaxSlices slice lengths, every archive
   content, with and without a whitelist file. *)
Init ==
    InitWith({a \in Args(1..4, 1..3, {1}, {0, 1}) :
                 a.hours <= MaxSlices * a.slice_hours},
             {CsvPresent, CsvMissing, CsvShort}, Universes, {2})

(* Windows shorter than two slice lengths: retries and pagination in depth. *)
InitCall ==
    InitWith({a \in Args({1, 4}, {1, 3}, 1..CallMaxPagesize, 0..CallMaxRetries) :
                 a.hours < 2 * a.slice_hours},
             {CsvPresent, CsvShort}, {{RowW}, {RowG}}, {CallMaxPages})

(* Many slices: windowing in depth. *)
InitWindow ==
    InitWith(Args(1..WinMaxWindow, 1..WinMaxSlice, {1}, {0, 1}),
             {CsvPresent, CsvShort}, {{RowW}}, {2})

---------------------------------------------------------------------------
(* Actions *)

SetLast(s, e) == [s EXCEPT ![Len(s)] = e]

Answered(res, n, kept) ==
    SetLast(log, [log[Len(log)] EXCEPT !.res = res, !.n = n, !.kept = kept])

(* main, lines 128-140, up to the for loop of fetch_jwst_exoplanets (85-88) *)
Main ==
    /\ pc = "main"
    /\ ~load_raises(csv_file)
    /\ end_dt' = utcnow
    /\ start_dt' = utcnow - args.hours
    /\ whitelist' = load_whitelist(csv_file)
    /\ stderr' = Append(stderr, load_message(csv_file))
    /\ out' = [generated_utc |-> utcnow,
               window_utc |-> <<utcnow - args.hours, utcnow>>,
               jwst |-> <<>>, jwst_error |-> <<>>]
    /\ rows' = <<>>
    /\ t1' = utcnow
    /\ slices' = slice_count(args.hours, args.slice_hours)
    /\ slice_no' = 0
    /\ pc' = "for"
    /\ UNCHANGED <<args, csv_file, archive, file, t0, page, attempt, log,
                   sleeps, fetched>>

(* main, lines 128-131: load_whitelist raises at line 31; main has no handler
   around line 131, so the process ends with a traceback and writes nothing *)
MainCrash ==
    /\ pc = "main"
    /\ load_raises(csv_file)
    /\ end_dt' = utcnow
    /\ start_dt' = utcnow - args.hours
    /\ stderr' = Append(stderr, [tag |-> "traceback", n |-> 0, m |-> 0])
    /\ pc' = "crashed"
    /\ UNCHANGED <<args, csv_file, archive, whitelist, out, file, rows, t0, t1,
                   slices, slice_no, page, attempt, log, sleeps, fetched>>

(* lines 89-94: one more iteration of the for loop *)
SliceBegin ==
    /\ pc = "for"
    /\ slice_no < slices
    /\ slice_no' = slice_no + 1
    /\ t0' = slice_start(t1, args.slice_hours, start_dt)
    /\ stderr' = Append(stderr,
           [tag |-> "slice",
            n |-> slice_start(t1, args.slice_hours, start_dt), m |-> t1])
    /\ page' = 1
    /\ pc' = "while"
    /\ UNCHANGED <<args, csv_file, archive, whitelist, start_dt, end_dt, out,
                   file, rows, t1, slices, attempt, log, sleeps, fetched>>

(* line 89: range(slices) is exhausted *)
ForExhausted ==
    /\ pc = "for"
    /\ slice_no >= slices
    /\ pc' = "dedup"
    /\ UNCHANGED <<args, csv_file, archive, whitelist, start_dt, end_dt, out,
                   file, rows, t0, t1, slices, slice_no, page, attempt, log,
                   stderr, sleeps, fetched>>

(* lines 96-97 and 63-65: build the request and enter call_mast *)
PageRequest ==
    /\ pc = "while"
    /\ attempt' = 0
    /\ pc' = "try"
    /\ UNCHANGED <<args, csv_file, archive, whitelist, start_dt, end_dt, out,
                   file, rows, t0, t1, slices, slice_no, page, log, stderr,
                   sleeps, fetched>>

(* lines 65-73: one HTTP attempt is sent *)
Attempt ==
    /\ pc = "try"
    /\ in_range(attempt, args.retries)
    /\ log' = Append(log,
           [slice |-> slice_no, t0 |-> t0, t1 |-> t1, page |-> page,
            attempt |-> attempt,
            req |-> mast_request_jwst(to_mjd(t0), to_mjd(t1), page,
                                      args.pagesize),
            res |-> "pending", n |-> 0, kept |-> 0])
    /\ pc' = "wait"
    /\ UNCHANGED <<args, csv_file, archive, whitelist, start_dt, end_dt, out,
                   file, rows, t0, t1, slices, slice_no, page, attempt, stderr,
                   sleeps, fetched>>

(* line 74, then lines 98-108: a page arrives and is processed *)
RespondOk ==
    /\ pc = "wait"
    /\ \E data \in Pages(archive.rows, args.pagesize) :
         /\ page < archive.pages \/ Len(data) < args.pagesize
         /\ log' = Answered("ok", Len(data), Len(filter_page(data, whitelist)))
         /\ fetched' = fetched \cup Range(data)
         /\ stderr' = Append(stderr,
                [tag |-> "page", n |-> page, m |-> Len(data)])
         /\ rows' = rows \o filter_page(data, whitelist)
         /\ IF last_page(data, filter_page(data, whitelist), args.pagesize)
            THEN /\ t1' = t0
                 /\ page' = page
                 /\ IF window_done(t0, start_dt)
                    THEN /\ pc' = "dedup"
                         /\ sleeps' = sleeps
                    ELSE /\ pc' = "for"
                         /\ sleeps' = Append(sleeps, 3)
            ELSE /\ page' = page + 1
                 /\ pc' = "while"
                 /\ t1' = t1
                 /\ sleeps' = sleeps
    /\ UNCHANGED <<args, csv_file, archive, whitelist, start_dt, end_dt, out,
                   file, t0, slices, slice_no, attempt>>

(* line 74, then lines 98-99: the response parses but its data is null, so
   len(data) raises; nothing catches it before main, lines 149-151 *)
RespondMalformed ==
    /\ pc = "wait"
    /\ log' = Answered("malformed", 0, 0)
    /\ stderr' = Append(stderr, [tag |-> "error", n |-> 0, m |-> 0])
    /\ out' = [out EXCEPT !.jwst_error = <<"TypeError">>]
    /\ pc' = "write"
    /\ UNCHANGED <<args, csv_file, archive, whitelist, start_dt, end_dt, file,
                   rows, t0, t1, slices, slice_no, page, attempt, sleeps,
                   fetched>>

(* lines 75-80: the attempt fails and another one is left *)
RespondFailRetry ==
    /\ pc = "wait"
    /\ should_retry(attempt, args.retries)
    /\ log' = Answered("fail", 0, 0)
    /\ stderr' = stderr \o retry_warning(attempt, args.retries)
    /\ sleeps' = Append(sleeps, sleep_s(attempt))
    /\ attempt' = attempt + 1
    /\ pc' = "try"
    /\ UNCHANGED <<args, csv_file, archive, whitelist, start_dt, end_dt, out,
                   file, rows, t0, t1, slices, slice_no, page, fetched>>

(* lines 75-77 and 81-82: the last attempt fails; the exception leaves
   call_mast and fetch_jwst_exoplanets and is caught in main, lines 149-151 *)
RespondFailRaise ==
    /\ pc = "wait"
    /\ ~should_retry(attempt, args.retries)
    /\ log' = Answered("fail", 0, 0)
    /\ stderr' = Append(stderr, [tag |-> "error", n |-> 0, m |-> 0])
    /\ out' = [out EXCEPT !.jwst_error = <<"URLError">>]
    /\ pc' = "write"
    /\ UNCHANGED <<args, csv_file, archive, whitelist, start_dt, end_dt, file,
                   rows, t0, t1, slices, slice_no, page, attempt, sleeps,
                   fetched>>

(* lines 109-115, then main, lines 140 and 148 *)
Dedup ==
    /\ pc = "dedup"
    /\ out' = [out EXCEPT !.jwst = uniq_rows(rows)]
    /\ stderr' = Append(stderr,
           [tag |-> "done", n |-> Len(uniq_rows(rows)), m |-> 0])
    /\ pc' = "write"
    /\ UNCHANGED <<args, csv_file, archive, whitelist, start_dt, end_dt, file,
                   rows, t0, t1, slices, slice_no, page, attempt, log, sleeps,
                   fetched>>

(* main, lines 153-156 *)
Write ==
    /\ pc = "write"
    /\ file' = Append(file, out)
    /\ pc' = "done"
    /\ UNCHANGED <<args, csv_file, archive, whitelist, start_dt, end_dt, out,
                   rows, t0, t1, slices, slice_no, page, attempt, log, stderr,
                   sleeps, fetched>>

Next ==
    \/ Main
    \/ MainCrash
    \/ SliceBegin
    \/ ForExhausted
    \/ PageRequest
    \/ Attempt
    \/ RespondOk
    \/ RespondMalformed
    \/ RespondFailRetry
    \/ RespondFailRaise
    \/ Dedup
    \/ Write

Spec == Init /\ [][Next]_vars

SpecCall == InitCall /\ [][Next]_vars

SpecWindow == InitWindow /\ [][Next]_vars

---------------------------------------------------------------------------
(* Vocabulary of the properties *)

Last == log[Len(log)]

(* the attempts of the call for page p of slice s *)
CallEntries(s, p) ==
    {j \in DOMAIN log : log[j].slice = s /\ log[j].page = p}

(* the attempts of slice s *)
SliceEntries(s) == {j \in DOMAIN log : log[j].slice = s}

Count(seq, Test(_)) == Cardinality({j \in DOMAIN seq : Test(seq[j])})

(* main caught the exception call_mast raised after its last attempt *)
RaisedFromCall == out.jwst_error = <<"URLError">>

(* the run ended without an exception in the fetch *)
Succeeded == pc = "done" /\ out.jwst_error = <<>>

---------------------------------------------------------------------------
(* C3: with retries = R >= 0, a call_mast whose transport always fails makes
   exactly R+1 attempts, numbered 0..R, and then raises to its caller: no
   call ever makes more than R+1 attempts, a failed attempt before the R-th
   is followed by the next attempt, the failed R-th attempt is followed by
   the raise and by nothing else, and the raise happens only then. *)
C3_ExhaustedCallRaisesAfterAllAttempts ==
    /\ \A j \in DOMAIN log :
          LET before == {k \in CallEntries(log[j].slice, log[j].page) : k < j}
          IN  /\ log[j].attempt \in 0..args.retries
              /\ log[j].attempt = Cardinality(before)
              /\ \A k \in before : log[k].res = "fail"
    /\ (log # <<>> /\ Last.res = "fail") =>
          IF Last.attempt = args.retries
          THEN pc \in {"write", "done"} /\ RaisedFromCall
          ELSE pc = "try" /\ attempt = Last.attempt + 1 /\ ~RaisedFromCall
    /\ RaisedFromCall =>
          log # <<>> /\ Last.res = "fail" /\ Last.attempt = args.retries

(* a call with retries = 2 has failed three times and main has caught it *)
C3_Witness ==
    /\ pc = "done"
    /\ args.retries = 2
    /\ RaisedFromCall
    /\ Cardinality({j \in CallEntries(1, 1) : log[j].res = "fail"}) = 3

---------------------------------------------------------------------------
(* C4: a call_mast whose transport fails k <= retries times and then succeeds
   returns after exactly k+1 attempts with exactly k warnings: the q-th page
   line on standard error is the return of the q-th successful attempt, that
   attempt has number k, the call has k failed attempts before it and none
   after it, and the k messages just before the page line are the warnings
   [retry 1/R] .. [retry k/R]. *)
IsOk(e) == e.res = "ok"

IsPageLine(e) == e.tag = "page"

(* the index in log of the c-th successful attempt *)
OkEntry(c) ==
    CHOOSE j \in DOMAIN log :
        /\ log[j].res = "ok"
        /\ Cardinality({k \in 1..j : log[k].res = "ok"}) = c

(* how many retry warnings immediately precede message q *)
WarningsBefore(q) ==
    CHOOSE w \in 0..(q - 1) :
        /\ \A x \in (q - w)..(q - 1) : stderr[x].tag = "retry"
        /\ w = q - 1 \/ stderr[q - w - 1].tag # "retry"

C4_SuccessAfterKFailures ==
    /\ Count(stderr, IsPageLine) = Count(log, IsOk)
    /\ \A q \in DOMAIN stderr :
          stderr[q].tag = "page" =>
            LET j == OkEntry(Cardinality({x \in 1..q : stderr[x].tag = "page"}))
                k == log[j].attempt
                call == CallEntries(log[j].slice, log[j].page)
            IN  /\ k <= args.retries
                /\ Cardinality(call) = k + 1
                /\ Cardinality({c \in call : log[c].res = "fail"}) = k
                /\ WarningsBefore(q) = k
                /\ \A x \in 1..k :
                      stderr[q - k + x - 1] =
                          [tag |-> "retry", n |-> x, m |-> args.retries]

(* retries = 3, two failures, then the page: two warnings *)
C4_Witness ==
    /\ pc = "done"
    /\ args.retries = 3
    /\ \E j \in DOMAIN log : log[j].res = "ok" /\ log[j].attempt = 2
    /\ Count(stderr, LAMBDA e : e.tag = "retry") = 2

---------------------------------------------------------------------------
(* C5: within a slice the pages are requested in the order 1, 2, 3, ...; a
   page with fewer raw rows than pagesize is the last request of its slice,
   and after a page with exactly pagesize raw rows the program is about to
   request the next page of the same slice, whatever the whitelist kept. *)
C5_PaginationStopsAtShortPage ==
    /\ \A j \in DOMAIN log :
          LET before == {k \in SliceEntries(log[j].slice) : k < j}
          IN  /\ log[j].page =
                     1 + Cardinality({k \in before : log[k].res = "ok"})
              /\ \A k \in before :
                     log[k].res = "ok" => log[k].n = args.pagesize
    /\ (log # <<>> /\ Last.res = "ok") =>
          IF Last.n < args.pagesize
          THEN pc \notin {"wait"} /\ (pc \in {"while", "try"} => slice_no > Last.slice)
          ELSE /\ pc \in {"while", "try"}
               /\ slice_no = Last.slice
               /\ page = Last.page + 1

(* pagesize 2 and pages of 2, 2 and 1 rows: three requests, then the end *)
C5_Witness ==
    /\ pc = "done"
    /\ args.pagesize = 2
    /\ Len(log) = 3
    /\ \A j \in 1..3 : log[j].res = "ok" /\ log[j].page = j
    /\ log[1].n = 2 /\ log[2].n = 2 /\ log[3].n = 1

---------------------------------------------------------------------------
(* C6: when the window is a whole number n >= 1 of slice lengths, exactly n
   slices are queried, the k-th being [end - k*S, end - (k-1)*S]: each is one
   slice length wide, each ends where the one before starts, the first ends
   at end and the n-th starts at start. *)
C6_WholeMultipleGivesNSlices ==
    (args.hours % args.slice_hours = 0) =>
        LET n == args.hours \div args.slice_hours
        IN  /\ \A j \in DOMAIN log :
                  /\ log[j].slice \in 1..n
                  /\ log[j].t1 = utcnow - (log[j].slice - 1) * args.slice_hours
                  /\ log[j].t0 = log[j].t1 - args.slice_hours
                  /\ log[j].req.t_max_min = 24 * 40587 + log[j].t0
                  /\ log[j].req.t_min_max = 24 * 40587 + log[j].t1
            /\ Succeeded =>
                  /\ {log[j].slice : j \in DOMAIN log} = 1..n
                  /\ start_dt = utcnow - args.hours
                  /\ \E j \in DOMAIN log : log[j].t0 = start_dt
                  /\ \E j \in DOMAIN log : log[j].t1 = end_dt

(* a window of 4 hours in slices of 1 hour has been fetched: 4 slices *)
C6_Witness ==
    /\ Succeeded
    /\ args.hours = 4
    /\ args.slice_hours = 1
    /\ Cardinality({log[j].slice : j \in DOMAIN log}) = 4

---------------------------------------------------------------------------
(* C7 as stated: for every window length W and slice length S the number of
   slices queried on a run without a failure is ceil(W / S), at least 1, and
   every hour of [start, end] lies in a queried slice. *)
Ceil(num, den) == (num + den - 1) \div den

C7_SliceCountIsCeiling ==
    Succeeded =>
        /\ Cardinality({log[j].slice : j \in DOMAIN log}) =
               Max(1, Ceil(args.hours, args.slice_hours))
        /\ \A h \in start_dt..(end_dt - 1) :
               \E j \in DOMAIN log : log[j].t0 <= h /\ h + 1 <= log[j].t1

---------------------------------------------------------------------------
(* C10: requests are strictly sequential.  At most one request is
   outstanding and it is the latest one; the slices are requested in order;
   and a request of a later slice is issued only after a request of the
   earlier slice has completed with a short page. *)
C10_StrictlySequential ==
    /\ Cardinality({j \in DOMAIN log : log[j].res = "pending"}) <= 1
    /\ \A j \in DOMAIN log : log[j].res = "pending" => j = Len(log)
    /\ (pc = "wait") <=> (log # <<>> /\ Last.res = "pending")
    /\ \A j, k \in DOMAIN log :
          j < k =>
            /\ log[j].slice <= log[k].slice
            /\ log[j].slice < log[k].slice =>
                  \E x \in j..(k - 1) :
                      /\ log[x].slice = log[j].slice
                      /\ log[x].res = "ok"
                      /\ log[x].n < args.pagesize

(* slice 1 took a retry and two pages, and the first request of slice 2 is
   outstanding *)
C10_Witness ==
    /\ pc = "wait"
    /\ Last.slice = 2
    /\ \E j \in DOMAIN log : log[j].slice = 1 /\ log[j].res = "fail"
    /\ \E j \in DOMAIN log : log[j].slice = 1 /\ log[j].page = 2

---------------------------------------------------------------------------
(* Vocabulary of the claims about the envelope *)

(* the identity key of the data model: obsid when it is not null (0
   included), else the triple *)
IdentityKey(r) ==
    IF r.obsid # None THEN <<r.obsid>> ELSE <<r.obs_id, r.t_min, r.t_max>>

(* how many rows the first j attempts added to the accumulator in slices
   before slice s *)
RECURSIVE KeptBefore(_, _)
KeptBefore(j, s) ==
    IF j = 0 THEN 0
    ELSE KeptBefore(j - 1, s) + (IF log[j].slice < s THEN log[j].kept ELSE 0)

(* some call_mast has used up its retries *)
Exhausted ==
    \E j \in DOMAIN log : log[j].res = "fail" /\ log[j].attempt = args.retries

---------------------------------------------------------------------------
(* C1 as stated: when a call exhausts its retries on a slice after the
   first, the written envelope's jwst contains the whitelisted,
   de-duplicated rows collected in the earlier slices, and jwst_error is a
   non-empty string. *)
C1_PartialRowsSurviveFailure ==
    (pc = "done" /\ RaisedFromCall /\ Last.slice >= 2) =>
        LET earlier == SubSeq(rows, 1, KeptBefore(Len(log), Last.slice))
        IN  /\ Len(file) = 1
            /\ Range(uniq_rows(earlier)) \subseteq Range(file[1].jwst)
            /\ file[1].jwst_error # <<>>
            /\ file[1].jwst_error[1] # ""

---------------------------------------------------------------------------
(* C2 as stated: every run that has loaded its whitelist ends by writing the
   envelope exactly once and does not stop before; the envelope has jwst_error if and only if some
   archive call exhausted its retries, and then standard error carries a
   diagnostic. *)
C2_ErrorFieldIffRetriesExhausted ==
    /\ Len(file) <= 1
    /\ pc \notin {"done", "crashed"} => ENABLED Next
    /\ pc = "done" =>
          /\ Len(file) = 1
          /\ (file[1].jwst_error # <<>>) <=> Exhausted
          /\ Exhausted => \E q \in DOMAIN stderr : stderr[q].tag = "error"

---------------------------------------------------------------------------
(* C8 as stated: the rows returned by fetch_jwst_exoplanets contain no two
   rows with the same identity key (rows with equal obsid, 0 included,
   collapse to one), and two accumulated rows with a null obsid and distinct
   triples are both returned. *)
C8_NoTwoRowsShareIdentityKey ==
    Succeeded =>
        LET jw == file[1].jwst
        IN  /\ \A a, b \in DOMAIN jw :
                  a # b => IdentityKey(jw[a]) # IdentityKey(jw[b])
            /\ \A a, b \in DOMAIN rows :
                  (/\ rows[a].obsid = None
                   /\ rows[b].obsid = None
                   /\ IdentityKey(rows[a]) # IdentityKey(rows[b])) =>
                      {rows[a], rows[b]} \subseteq Range(jw)

---------------------------------------------------------------------------
(* C9 as stated: on a successful run every row of jwst is a fetched row
   whose normalized target_name is in the whitelist, and every fetched row
   whose normalized target_name is in the whitelist has its identity key
   in jwst. *)
C9_OutputIsExactlyTheWhitelistedRows ==
    Succeeded =>
        LET jw == file[1].jwst
        IN  /\ \A b \in DOMAIN jw :
                  /\ jw[b] \in fetched
                  /\ normalize(jw[b].target_name) \in whitelist
            /\ \A r \in fetched :
                  normalize(r.target_name) \in whitelist =>
                    \E b \in DOMAIN jw :
                        IdentityKey(jw[b]) = IdentityKey(r)

---------------------------------------------------------------------------
(* C11 as stated: a parsed response whose data field is null (or otherwise
   no array) is treated as an empty page: it adds no rows, it is the last
   request of its slice, and it does not make the run a fetch failure. *)
C11_MalformedDataIsEmptyPage ==
    \A j \in DOMAIN log :
        log[j].res = "malformed" =>
            /\ log[j].kept = 0
            /\ \A k \in DOMAIN log : k > j => log[k].slice > log[j].slice
            /\ out.jwst_error = <<>>
            /\ \A q \in DOMAIN stderr : stderr[q].tag # "error"

---------------------------------------------------------------------------
(* C12 as stated, the values of a row being read without surrounding
   blanks: load_whitelist returns, and what it returns is exactly the set
   holding, for every data row with a non-empty host, the normalized host
   and, if and only if the letter is one alphabetic character, the
   normalized host+letter. *)
Trimmed(s) ==
    LET inked == {j \in DOMAIN s : s[j] # " "}
    IN  IF inked = {} THEN <<>>
        ELSE SubSeq(s, CHOOSE j \in inked : \A k \in inked : j <= k,
                       CHOOSE j \in inked : \A k \in inked : j >= k)

Letters == {"W", "w", "G", "g", "B", "b"}

WhitelistOf(f) ==
    LET hosted == {j \in DOMAIN f.rows : Trimmed(f.rows[j].hostname_nn) # <<>>}
        lettered == {j \in hosted :
                        /\ Len(Trimmed(f.rows[j].letter_nn)) = 1
                        /\ Trimmed(f.rows[j].letter_nn)[1] \in Letters}
    IN  {normalize(Trimmed(f.rows[j].hostname_nn)) : j \in hosted} \cup
        {normalize(Trimmed(f.rows[j].hostname_nn) \o
                   Trimmed(f.rows[j].letter_nn)) : j \in lettered}

C12_WhitelistIsHostsAndHostLetters ==
    (pc # "main" /\ csv_file.exists) =>
        /\ pc # "crashed"
        /\ whitelist = WhitelistOf(csv_file)

---------------------------------------------------------------------------
(* Runs over every target name of at most MaxNameLen characters and every
   whitelist host of at most MaxHostLen characters: normalize is applied to
   the host at line 35 and to the target name at line 101. *)
MaxNameLen == 3

MaxHostLen == 2

NameChars == {"W", "w", "-", "4"}

NamesUpTo(n) == UNION {[1..k -> NameChars] : k \in 0..n}

CsvHost(host) ==
    [exists |-> TRUE,
     rows |-> <<[hostname_nn |-> host, letter_nn |-> <<>>, fields |-> 2]>>]

InitNames ==
    InitWith(Args({4}, {3}, {1}, {1}),
             {CsvHost(h) : h \in NamesUpTo(MaxHostLen)} \cup {CsvShort},
             {{Row(x, 1, 1)} : x \in NamesUpTo(MaxNameLen)}, {2})

SpecNames == InitNames /\ [][Next]_vars

(* C13: normalize is idempotent, on the names of the whitelist and on the
   target names the archive returned, and two names that differ only in
   letter case and in separators normalize to the same string, so a
   returned row whose target name differs from a whitelist host in these
   respects only is kept (a row of the file with an empty host names no
   host). *)
SameLetter(a, b) ==
    a = b \/ {a, b} \in {{"W", "w"}, {"G", "g"}, {"B", "b"}}

Separator(ch) == ch \in {"-", " "}

(* x and y differ only in letter case and in separators *)
RECURSIVE Similar(_, _)
Similar(x, y) ==
    IF x # <<>> /\ Separator(Head(x)) THEN Similar(Tail(x), y)
    ELSE IF y # <<>> /\ Separator(Head(y)) THEN Similar(x, Tail(y))
    ELSE IF x = <<>> \/ y = <<>> THEN x = <<>> /\ y = <<>>
    ELSE SameLetter(Head(x), Head(y)) /\ Similar(Tail(x), Tail(y))

C13_NormalizeIdempotentAndInsensitive ==
    /\ \A w \in whitelist : normalize(w) = w
    /\ \A r \in fetched :
          /\ normalize(normalize(r.target_name)) = normalize(r.target_name)
          /\ \A j \in DOMAIN csv_file.rows :
                Similar(r.target_name, csv_file.rows[j].hostname_nn) =>
                    /\ normalize(r.target_name) =
                           normalize(csv_file.rows[j].hostname_nn)
                    /\ csv_file.rows[j].hostname_nn # <<>> =>
                           \E k \in DOMAIN rows : rows[k] = r

(* the archive returned W-4, the whitelist file names w4, the row is kept *)
C13_Witness ==
    /\ pc = "done"
    /\ csv_file.rows[1].hostname_nn = <<"w", "4">>
    /\ \E k \in DOMAIN out.jwst :
          out.jwst[k].target_name = <<"W", "-", "4">>

---------------------------------------------------------------------------
(* C14: the sleep after the failure of attempt number a < retries is 2^a
   seconds (sleeps are counted in tenths of a second, the pacing sleep of
   line 108 being 3): the i-th retry sleep belongs to the i-th failed
   attempt that is not the last of its call, and so does the i-th warning,
   which reads [retry a+1/retries]; a failed attempt number retries adds
   neither a sleep nor a warning, and the failure is propagated. *)
IsRetrySleep(s) == s # 3

IsRetryWarning(e) == e.tag = "retry"

IsRetriedFailure(e) == e.res = "fail" /\ e.attempt < args.retries

C14_BackoffIsPowerOfTwo ==
    LET naps == SelectSeq(sleeps, IsRetrySleep)
        warnings == SelectSeq(stderr, IsRetryWarning)
        failures == SelectSeq(log, IsRetriedFailure)
    IN  /\ Len(naps) = Len(failures)
        /\ Len(warnings) = Len(failures)
        /\ \A i \in DOMAIN failures :
              /\ naps[i] = 10 * 2 ^ failures[i].attempt
              /\ warnings[i] = [tag |-> "retry", n |-> failures[i].attempt + 1,
                                m |-> args.retries]
        /\ (log # <<>> /\ Last.res = "fail" /\ Last.attempt = args.retries) =>
              /\ RaisedFromCall
              /\ pc \in {"write", "done"}

(* retries = 3 and four failures: sleeps of 1, 2 and 4 seconds, then the
   raise without a fourth sleep *)
C14_Witness ==
    /\ pc = "done"
    /\ args.retries = 3
    /\ RaisedFromCall
    /\ sleeps = <<10, 20, 40>>

---------------------------------------------------------------------------
(* C15: every slice (t0, t1) queried satisfies start <= t0 < t1 <= end; the
   first slice ends at end, each later slice ends exactly where the one
   before it started, and once a slice has started at start neither a later
   slice is queried nor the loop over the slices continued. *)
C15_SlicesStayInsideWindow ==
    /\ \A j \in DOMAIN log :
          /\ start_dt <= log[j].t0
          /\ log[j].t0 < log[j].t1
          /\ log[j].t1 <= end_dt
          /\ log[j].slice = 1 => log[j].t1 = end_dt
          /\ \A k \in DOMAIN log :
                /\ log[k].slice = log[j].slice =>
                      log[k].t0 = log[j].t0 /\ log[k].t1 = log[j].t1
                /\ log[k].slice = log[j].slice + 1 => log[k].t1 = log[j].t0
                /\ (log[j].t0 = start_dt /\ j < k) =>
                      log[k].slice = log[j].slice
    /\ (log # <<>> /\ Last.t0 = start_dt /\ Last.res = "ok"
            /\ Last.n < args.pagesize) =>
          pc \in {"dedup", "write", "done"}

(* a window of 5 hours in slices of 3: the second slice is clamped to
   [start, end - 3] and the run ends after it *)
C15_Witness ==
    /\ Succeeded
    /\ args.hours = 5
    /\ args.slice_hours = 3
    /\ \E j \in DOMAIN log :
          /\ log[j].slice = 2
          /\ log[j].t0 = start_dt
          /\ log[j].t1 = end_dt - 3
    /\ \A j \in DOMAIN log : log[j].slice <= 2

---------------------------------------------------------------------------
(* C16 as stated: the jwst sequence written by a run without a failure is
   the accumulated stream of whitelisted rows, in request order, reduced to
   the first occurrence of each identity key. *)
RECURSIVE FirstOccurrences(_)
FirstOccurrences(seq) ==
    IF seq = <<>> THEN <<>>
    ELSE LET n == Len(seq)
             before == SubSeq(seq, 1, n - 1)
         IN  IF \E j \in 1..(n - 1) : IdentityKey(seq[j]) = IdentityKey(seq[n])
             THEN FirstOccurrences(before)
             ELSE Append(FirstOccurrences(before), seq[n])

C16_FirstOccurrenceOfEachKeyInOrder ==
    Succeeded => file[1].jwst = FirstOccurrences(rows)

---------------------------------------------------------------------------
(* C17: when the whitelist file is missing, load_whitelist returns the empty
   set after a warning and the run goes on to its end: the requests follow
   the sizes of the pages returned, as with any whitelist (a full page is
   followed by the next page of the slice although no row of it is kept),
   no row is accumulated, and the envelope written has an empty jwst and a
   jwst_error exactly when the fetch raised. *)
C17_MissingWhitelistIsNotFatal ==
    (~csv_file.exists /\ pc # "main") =>
        /\ pc # "crashed"
        /\ pc # "done" => ENABLED Next
        /\ whitelist = {}
        /\ stderr[1] = [tag |-> "warn", n |-> 0, m |-> 0]
        /\ rows = <<>>
        /\ \A j \in DOMAIN log :
              LET before == {k \in SliceEntries(log[j].slice) : k < j}
              IN  /\ log[j].kept = 0
                  /\ log[j].req = mast_request_jwst(to_mjd(log[j].t0),
                                      to_mjd(log[j].t1), log[j].page,
                                      args.pagesize)
                  /\ log[j].page =
                         1 + Cardinality({k \in before : log[k].res = "ok"})
                  /\ \A k \in before :
                         log[k].res = "ok" => log[k].n = args.pagesize
        /\ (log # <<>> /\ Last.res = "ok" /\ Last.n = args.pagesize) =>
              /\ pc \in {"while", "try"}
              /\ slice_no = Last.slice
              /\ page = Last.page + 1
        /\ pc = "done" =>
              /\ Len(file) = 1
              /\ file[1].jwst = <<>>
              /\ file[1].jwst_error # <<>> <=>
                     (log # <<>> /\ Last.res \in {"fail", "malformed"})

(* no whitelist file: a full page was returned, the next page was requested
   and the envelope was written without rows and without an error *)
C17_Witness ==
    /\ ~csv_file.exists
    /\ pc = "done"
    /\ file[1].jwst = <<>>
    /\ file[1].jwst_error = <<>>
    /\ \E j, k \in DOMAIN log :
          /\ log[j].n = args.pagesize
          /\ log[k].slice = log[j].slice
          /\ log[k].page = log[j].page + 1

---------------------------------------------------------------------------
(* C18 as stated: generated_utc in the written envelope is the instant the
   run finished, which is no earlier than the instant it started plus the
   time call_mast has slept between attempts, and window_utc is the pair
   (start, end) with end the instant the run started.  Instants are compared
   in seconds; the clock is read in hours, the sleeps are in tenths of a
   second. *)
RECURSIVE SumSeq(_)
SumSeq(seq) == IF seq = <<>> THEN 0 ELSE Head(seq) + SumSeq(Tail(seq))

(* whole seconds slept between the attempts of the requests *)
SleptInRetries == SumSeq(SelectSeq(sleeps, IsRetrySleep)) \div 10

C18_GeneratedIsTheFinishInstant ==
    pc = "done" =>
        /\ file[1].window_utc = <<start_dt, end_dt>>
        /\ end_dt = utcnow
        /\ start_dt = end_dt - args.hours
        /\ file[1].generated_utc * 3600 >= utcnow * 3600 + SleptInRetries

---------------------------------------------------------------------------
(* The program takes its next step whenever it has one, and urlopen returns
   or raises within its timeout (line 73); the archive holds a bounded
   number of full pages per slice, so every slice eventually yields a short
   page. *)
SpecCallFair == InitCall /\ [][Next]_vars /\ WF_vars(Next)

(* C19: the output file is written only when every slice reached has been
   ended by a response with fewer than pagesize rows or by a request that
   used up its retries; as long as the pages of a slice are full the next
   page of that slice is requested; and when every slice eventually yields
   a short page the number of HTTP attempts is bounded and a run that has
   begun its fetch eventually writes the output file. *)
SliceEnded(s) ==
    \E j \in SliceEntries(s) :
        \/ log[j].res \in {"ok", "malformed"} /\ log[j].n < args.pagesize
        \/ log[j].res = "fail" /\ log[j].attempt = args.retries

WrittenOnlyAfterEverySliceEnded ==
    /\ pc \in {"dedup", "write", "done"} =>
          \A s \in 1..slice_no : SliceEnded(s)
    /\ (log # <<>> /\ Last.res = "ok" /\ Last.n = args.pagesize) =>
          pc \in {"while", "try"} /\ slice_no = Last.slice
    /\ Len(log) <= slices * archive.pages * (args.retries + 1)
    /\ Len(file) = 1 <=> pc = "done"

C19_WrittenIffEverySliceEnds ==
    /\ [] WrittenOnlyAfterEverySliceEnded
    /\ (pc = "for") ~> (pc = "done")

(* pagesize 2: two full pages and a short one, each after a failed attempt,
   and the file is written *)
C19_Witness ==
    /\ pc = "done"
    /\ Len(file) = 1
    /\ args.pagesize = 2
    /\ \E j \in DOMAIN log : log[j].page = 3 /\ log[j].res = "ok"
    /\ Count(log, LAMBDA e : e.res = "fail") = 3

====
